---- MODULE Spec2Model ----
(***************************************************************************)
(* A model of kraken/lib/pretrain/model.py: the PretrainDataModule         *)
(* constructor (sample normalisation, dataset build, split strategies),    *)
(* and the RecognitionPretrainModel hooks (validation bookkeeping,         *)
(* optimizer warmup, scheduler stepping, setup).                           *)
(***************************************************************************)
EXTENDS Integers, Sequences, FiniteSets, TLC

(***************************************************************************)
(* Bounds of the model.                                                    *)
(***************************************************************************)
\* largest dataset size fed to the random fractional split on its own
MaxDatasetLen == 50
\* longest training_data / evaluation_data lists given to PretrainDataModule
MaxTrainSamples == 2
MaxEvalSamples == 2
\* most validation batches between two on_validation_epoch_end calls
MaxValBatches == 2
\* most validation epochs (not counting the sanity check) of a run
MaxValEpochs == 3
\* most optimizer steps of a run
MaxGlobalStep == 101
\* most layers of a network before setup
MaxLayers == 3
\* most constructions of a model in one process
MaxConstructions == 2

(***************************************************************************)
(* Double-precision arithmetic, as used by `int(len(train_set)*partition)`.*)
(* A double x >= 0 is [sig, e] with value sig / 2^e.  The integer sig is   *)
(* held as [top, limbs]: four 13-bit limbs below bit 52 and top above, so  *)
(* a normalised 53-bit significand has top = 1.                            *)
(***************************************************************************)
\* IEEE 754 binary64 (Python's float): 52 stored significand bits
FractionBits == 52
\* FractionBits as four limbs of 13 bits, base 2^13
LimbBase == 8192

\* partition values are written as decimals with two places: k / PartitionDen
PartitionDen == 100

RECURSIVE Pow2(_)
Pow2(n) == IF n = 0 THEN 1 ELSE 2 * Pow2(n - 1)

\* the number of bits of c (0 for 0)
RECURSIVE BitLen(_)
BitLen(c) == IF c = 0 THEN 0 ELSE 1 + BitLen(c \div 2)

\* the least s with k * 2^s >= D (k > 0)
RECURSIVE LeadShift(_, _)
LeadShift(k, D) == IF k >= D THEN 0 ELSE 1 + LeadShift(2 * k, D)

ZeroSig == [top |-> 0, limbs |-> <<0, 0, 0, 0>>]

\* sig + c, the carry rippling up from the lowest limb
AddCarry(sig, c) ==
    LET a4 == sig.limbs[4] + c
        a3 == sig.limbs[3] + a4 \div LimbBase
        a2 == sig.limbs[2] + a3 \div LimbBase
        a1 == sig.limbs[1] + a2 \div LimbBase
    IN  [top |-> sig.top + a1 \div LimbBase,
         limbs |-> <<a1 % LimbBase, a2 % LimbBase, a3 % LimbBase, a4 % LimbBase>>]

\* sig * n for a small natural n, exactly
MulSig(sig, n) ==
    LET t4 == n * sig.limbs[4]
        t3 == n * sig.limbs[3] + t4 \div LimbBase
        t2 == n * sig.limbs[2] + t3 \div LimbBase
        t1 == n * sig.limbs[1] + t2 \div LimbBase
    IN  [top |-> n * sig.top + t1 \div LimbBase,
         limbs |-> <<t1 % LimbBase, t2 % LimbBase, t3 % LimbBase, t4 % LimbBase>>]

\* the double nearest to k / D (round to nearest, ties to even), 0 <= k <= D:
\* long division of k * 2^s / D in [1, 2), one limb at a time
ToDouble(k, D) ==
    IF k = 0 THEN [sig |-> ZeroSig, e |-> FractionBits]
    ELSE LET s  == LeadShift(k, D)
             r0 == k * Pow2(s) - D
             r1 == (r0 * LimbBase) % D
             r2 == (r1 * LimbBase) % D
             r3 == (r2 * LimbBase) % D
             r4 == (r3 * LimbBase) % D
             q  == [top |-> 1,
                    limbs |-> <<(r0 * LimbBase) \div D, (r1 * LimbBase) \div D,
                                (r2 * LimbBase) \div D, (r3 * LimbBase) \div D>>]
             above == \/ 2 * r4 > D
                      \/ 2 * r4 = D /\ q.limbs[4] % 2 = 1
         IN  [sig |-> IF above THEN AddCarry(q, 1) ELSE q,
              e |-> FractionBits + s]

\* float(n) * x, rounded to nearest, ties to even: the exact product has
\* extra bits beyond the 53 a double keeps, which are rounded away
FloatMul(n, x) ==
    LET prod    == MulSig(x.sig, n)
        extra   == IF prod.top = 0 THEN 0 ELSE BitLen(prod.top) - 1
        unit    == Pow2(extra)
        dropped == prod.limbs[4] % unit
        odd     == (prod.limbs[4] \div unit) % 2 = 1
        roundUp == \/ 2 * dropped > unit
                   \/ 2 * dropped = unit /\ odd
        trunc   == [prod EXCEPT !.limbs[4] = prod.limbs[4] - dropped]
    IN  [sig |-> IF roundUp THEN AddCarry(trunc, unit) ELSE trunc,
         e |-> x.e]

\* int(x) for a double 0 <= x with e >= FractionBits: truncation
FloatToInt(x) == x.sig.top \div Pow2(x.e - FractionBits)

(***************************************************************************)
(* The random fractional split's lengths, lines 198-199:                   *)
(*   train_len = int(len(train_set)*partition)                             *)
(*   val_len = len(train_set) - train_len                                  *)
(* n is len(train_set), k the partition in hundredths.                     *)
(***************************************************************************)
SplitLens(n, k) ==
    LET train_len == FloatToInt(FloatMul(n, ToDouble(k, PartitionDen)))
    IN  [train_len |-> train_len, val_len |-> n - train_len]

(***************************************************************************)
(* PretrainDataModule: inputs.                                             *)
(* A sample descriptor is abstracted to what dataset.add() does with it:   *)
(*   "train", "validation": a valid sample (the name is its partition      *)
(*                          marker, read only under a split filter);       *)
(*   "bad":     add() raises KrakenInputException;                         *)
(*   "missing": add() raises FileNotFoundError;                            *)
(*   "other":   add() raises any other error.                              *)
(***************************************************************************)
SampleKinds == {"train", "validation", "bad", "missing", "other"}

RECURSIVE SeqsUpTo(_, _)
SeqsUpTo(S, n) ==
    IF n = 0 THEN {<<>>}
    ELSE LET shorter == SeqsUpTo(S, n - 1)
         IN  shorter \cup {Append(q, x) : q \in {r \in shorter : Len(r) = n - 1}, x \in S}

FormatTypes == {"xml", "page", "alto", "binary", "path", "none", "bogus"}

\* the partitions given to the constructor, in hundredths (0.9 is the default)
Partitions == {90, 50}

\* training_data[0].type, read only when format_type is unset
ItemTypes(format_type, training_data) ==
    IF format_type = "none" /\ training_data # <<>> THEN {"baselines", "bbox"}
    ELSE {"n/a"}

(***************************************************************************)
(* Lines 112-175: the format branch.  Returns the exception raised         *)
(* ("none" when none) and binary_dataset_split as the branch leaves it.    *)
(***************************************************************************)
NormalizeFormat(format_type, training_data, first_type, binary_dataset_split) ==
    IF format_type \in {"xml", "page", "alto"}
    THEN [raised |-> "none", binary_dataset_split |-> FALSE]
    ELSE IF format_type = "binary"
    THEN [raised |-> "none", binary_dataset_split |-> binary_dataset_split]
    ELSE IF format_type = "path"
    THEN [raised |-> "none", binary_dataset_split |-> FALSE]
    ELSE IF format_type = "none"
    THEN IF training_data = <<>>
         THEN [raised |-> "IndexError", binary_dataset_split |-> binary_dataset_split]
         ELSE IF first_type = "baselines"
         THEN [raised |-> "none", binary_dataset_split |-> binary_dataset_split]
         ELSE [raised |-> "none", binary_dataset_split |-> FALSE]
    ELSE [raised |-> "ValueError", binary_dataset_split |-> binary_dataset_split]

(***************************************************************************)
(* dataset.add of the dataset classes: raises, or appends the sample       *)
(* (here: its position i in the descriptor list) unless a split            *)
(* filter excludes it.                                                     *)
(***************************************************************************)
DatasetAdd(dataset, i, sample, split_filter) ==
    IF sample = "bad" THEN [raised |-> "KrakenInputException", dataset |-> dataset]
    ELSE IF sample = "missing" THEN [raised |-> "FileNotFoundError", dataset |-> dataset]
    ELSE IF sample = "other" THEN [raised |-> "OtherError", dataset |-> dataset]
    ELSE IF split_filter \in {"all", sample}
    THEN [raised |-> "none", dataset |-> Append(dataset, i)]
    ELSE [raised |-> "none", dataset |-> dataset]

(***************************************************************************)
(* Lines 235-239: which exceptions of dataset.add() the loop catches.      *)
(***************************************************************************)
Caught(raised) == raised = "KrakenInputException"

(***************************************************************************)
(* Lines 226-241, _build_dataset: the loop from sample i on.               *)
(***************************************************************************)
RECURSIVE BuildFrom(_, _, _, _)
BuildFrom(samples, i, split_filter, dataset) ==
    IF i > Len(samples) THEN [raised |-> "none", dataset |-> dataset]
    ELSE LET r == DatasetAdd(dataset, i, samples[i], split_filter)
         IN  IF r.raised = "none"
             THEN BuildFrom(samples, i + 1, split_filter, r.dataset)
             ELSE IF Caught(r.raised)
             THEN BuildFrom(samples, i + 1, split_filter, dataset)
             ELSE [raised |-> r.raised, dataset |-> dataset]

BuildDataset(samples, split_filter) ==
    [samples |-> samples, split_filter |-> split_filter]
        @@ BuildFrom(samples, 1, split_filter, <<>>)

(***************************************************************************)
(* Lines 185, 190, 196: the strategy the if/elif/else chain takes.         *)
(***************************************************************************)
SelectStrategyFlagFirst(evaluation_data, binary_dataset_split) ==
    IF binary_dataset_split THEN "pre-encoded"
    ELSE IF evaluation_data # <<>> THEN "explicit"
    ELSE "random"

SelectStrategy(evaluation_data, binary_dataset_split) ==
    IF evaluation_data # <<>> THEN "explicit"
    ELSE IF binary_dataset_split THEN "pre-encoded"
    ELSE "random"

\* Subset(ds, range(len(ds)))
FullRange(dataset) == [dataset |-> dataset, indices |-> 0..(Len(dataset) - 1)]

\* len(subset)
SubsetLen(subset) == Cardinality(subset.indices)

NoSubset == [dataset |-> <<>>, indices |-> {}]

\* random_split(train_set, (train_len, val_len)): every partition of the indices
RandomSplits(dataset, lens) ==
    { <<[dataset |-> dataset, indices |-> T],
        [dataset |-> dataset, indices |-> (0..(Len(dataset) - 1)) \ T]>> :
      T \in {U \in SUBSET (0..(Len(dataset) - 1)) : Cardinality(U) = lens.train_len} }

(***************************************************************************)
(* Line 219: the emptiness test that raises ValueError.                    *)
(***************************************************************************)
SplitsEmptyBoth(train_set, val_set) ==
    SubsetLen(train_set) = 0 /\ SubsetLen(val_set) = 0

SplitsEmpty(train_set, val_set) ==
    SubsetLen(train_set) = 0 \/ SubsetLen(val_set) = 0

(***************************************************************************)
(* Lines 185-203: the builds and splits of one strategy.  A set of         *)
(* outcomes [raised, builds, train_set, val_set]: the random split picks   *)
(* any index partition of the computed lengths.                            *)
(***************************************************************************)
TwoBuilds(first, second) ==
    IF first.raised # "none"
    THEN {[raised |-> first.raised, builds |-> <<first>>,
           train_set |-> NoSubset, val_set |-> NoSubset]}
    ELSE IF second.raised # "none"
    THEN {[raised |-> second.raised, builds |-> <<first, second>>,
           train_set |-> FullRange(first.dataset), val_set |-> NoSubset]}
    ELSE {[raised |-> "none", builds |-> <<first, second>>,
           train_set |-> FullRange(first.dataset),
           val_set |-> FullRange(second.dataset)]}

BuildSplits(strategy, training_data, evaluation_data, partition) ==
    IF strategy = "explicit"
    THEN TwoBuilds(BuildDataset(training_data, "all"),
                   BuildDataset(evaluation_data, "all"))
    ELSE IF strategy = "pre-encoded"
    THEN TwoBuilds(BuildDataset(training_data, "train"),
                   BuildDataset(training_data, "validation"))
    ELSE LET b == BuildDataset(training_data, "all")
         IN  IF b.raised # "none"
             THEN {[raised |-> b.raised, builds |-> <<b>>,
                    train_set |-> NoSubset, val_set |-> NoSubset]}
             ELSE {[raised |-> "none", builds |-> <<b>>,
                    train_set |-> sp[1], val_set |-> sp[2]] :
                   sp \in RandomSplits(b.dataset,
                                       SplitLens(Len(b.dataset), partition))}

(***************************************************************************)
(* RecognitionPretrainModel: losses and metrics.                           *)
(* A loss is a positive integer (in some unit); a metric is a rational     *)
(* [num, den] in lowest terms, with math.inf as 1/0 and nan as 0/0.        *)
(***************************************************************************)
\* the losses a step can compute
Losses == {1, 2}

RECURSIVE GCD(_, _)
GCD(a, b) == IF b = 0 THEN a ELSE GCD(b, a % b)

Rat(num, den) == [num |-> num \div GCD(num, den), den |-> den \div GCD(num, den)]

Inf == [num |-> 1, den |-> 0]
NaN == [num |-> 0, den |-> 0]
IsNaN(a) == a.num = 0 /\ a.den = 0

RECURSIVE Sum(_)
Sum(q) == IF q = <<>> THEN 0 ELSE q[1] + Sum(Tail(q))

\* np.mean(self.val_ce): nan for an empty list
Mean(q) == IF q = <<>> THEN NaN ELSE Rat(Sum(q), Len(q))

\* a < b on floats: false when either is nan
Less(a, b) == ~IsNaN(a) /\ ~IsNaN(b) /\ a.num * b.den < b.num * a.den

(***************************************************************************)
(* Line 400: whether the epoch's average replaces the best metric.         *)
(***************************************************************************)
ImprovesOrTies(ce, best) == Less(ce, best) \/ (~IsNaN(ce) /\ ce = best)

Improves(ce, best) == Less(ce, best)

(***************************************************************************)
(* Lines 346-387, _step, on a batch.  A batch is abstracted to what the    *)
(* forward pass does with it: it computes a loss, or fails with            *)
(*   "oom":           a RuntimeError that is_oom_error() recognises;       *)
(*   "runtime_error": any other RuntimeError;                              *)
(*   "input_error":   the KrakenInputException of line 356.                *)
(* Returns what _step returns (returned = 0 for None), the exception that  *)
(* leaves it, and whether garbage_collection_cuda() ran.                   *)
(***************************************************************************)
Faults == {"oom", "runtime_error", "input_error"}

Batches == {[fault |-> "none", loss |-> l] : l \in Losses}
           \cup {[fault |-> f, loss |-> 0] : f \in Faults}

StepOomRaises(batch) ==
    IF batch.fault = "none"
    THEN [returned |-> batch.loss, raised |-> "none", freed |-> FALSE]
    ELSE IF batch.fault = "input_error"
    THEN [returned |-> 0, raised |-> "KrakenInputException", freed |-> FALSE]
    ELSE [returned |-> 0, raised |-> "RuntimeError", freed |-> FALSE]

Step(batch) ==
    IF batch.fault = "none"
    THEN [returned |-> batch.loss, raised |-> "none", freed |-> FALSE]
    ELSE IF batch.fault = "oom"
    THEN [returned |-> 0, raised |-> "none", freed |-> TRUE]
    ELSE IF batch.fault = "runtime_error"
    THEN [returned |-> 0, raised |-> "RuntimeError", freed |-> FALSE]
    ELSE [returned |-> 0, raised |-> "KrakenInputException", freed |-> FALSE]

(***************************************************************************)
(* Line 406: the accumulator after on_validation_epoch_end.                *)
(***************************************************************************)
ClearedUnlessSanity(q, sanity) == IF sanity THEN q ELSE <<>>

Cleared(q, sanity) == <<>>

(***************************************************************************)
(* RecognitionPretrainModel: optimizer warmup and scheduler stepping.      *)
(* A learning rate is a rational [num, den] in the unit of lrate.          *)
(***************************************************************************)
\* hparams.warmup: 0 stands for unset (None or 0, both falsy)
Warmups == {0, 2, 100}

\* hparams.lrate
LRates == {1000}

\* optimizer.param_groups
ParamGroups == {1, 2}

\* the rates a scheduler may set when it is stepped
ScheduledRates(lrate) == {Rat(lrate, 1), Rat(lrate, 10)}

\* isinstance(scheduler, lr_scheduler.OneCycleLR), or any other scheduler
SchedulerKinds == {"OneCycleLR", "other"}

\* the metric handed to lr_scheduler_step: None, or a value
Metrics == {"None", "value"}

(***************************************************************************)
(* Line 434: whether optimizer_step is inside the warmup window.           *)
(***************************************************************************)
InWarmup(warmup, global_step) == warmup # 0 /\ global_step < warmup

(***************************************************************************)
(* Lines 435-437: the rate optimizer_step sets in the warmup window,       *)
(*   min(1.0, float(global_step + 1) / warmup) * lrate.                    *)
(***************************************************************************)
WarmupRateFromZero(warmup, global_step, lrate) ==
    IF global_step >= warmup THEN Rat(lrate, 1)
    ELSE Rat(global_step * lrate, warmup)

WarmupRate(warmup, global_step, lrate) ==
    IF global_step + 1 >= warmup THEN Rat(lrate, 1)
    ELSE Rat((global_step + 1) * lrate, warmup)

(***************************************************************************)
(* Lines 440-449: the call lr_scheduler_step makes on the scheduler.       *)
(***************************************************************************)
PastWarmupStrict(warmup, global_step) == warmup = 0 \/ global_step > warmup

PastWarmup(warmup, global_step) == warmup = 0 \/ global_step >= warmup

SchedulerCall(warmup, global_step, kind, last_batch, metric) ==
    IF PastWarmup(warmup, global_step)
    THEN IF kind = "OneCycleLR" THEN "step()"
         ELSE IF last_batch
         THEN IF metric = "None" THEN "step()" ELSE "step(metric)"
         ELSE "none"
    ELSE "none"

(***************************************************************************)
(* RecognitionPretrainModel.setup: the layers of the network.              *)
(*   "rnn":        layers.TransposedSummarizingRNN                         *)
(*   "linsoftmax": layers.LinSoftmax                                       *)
(*   "conv":       any other layer                                         *)
(***************************************************************************)
LayerKinds == {"conv", "rnn", "linsoftmax"}

Stages == {"None", "fit", "validate"}

(***************************************************************************)
(* Lines 465-467: idx after the loop (0-based).  The loop leaves idx at    *)
(* the first recurrent layer, or at the last layer when it never breaks;   *)
(* over no layers idx is never bound (-1 here).                            *)
(***************************************************************************)
SplitIndex(net) ==
    LET recurrent == {i \in 1..Len(net) : net[i] = "rnn"}
    IN  IF net = <<>> THEN 0 - 1
        ELSE IF recurrent = {} THEN Len(net) - 1
        ELSE (CHOOSE i \in recurrent : \A j \in recurrent : i <= j) - 1

\* net[:idx] and net[idx:] for 0 <= idx <= len(net)
SliceBefore(net, idx) == SubSeq(net, 1, idx)
SliceFrom(net, idx) == SubSeq(net, idx + 1, Len(net))

\* line 493: whether the dummy codec and output layer are added
NeedsOutputLayer(codec, net) == ~codec /\ net[Len(net)] # "linsoftmax"

(***************************************************************************)
(* The masking hyperparameters and the wav2vec2mask layer.                 *)
(***************************************************************************)
MaskKeys == {"mask_width", "mask_prob", "num_negatives"}

\* the values of a masking parameter (in some unit)
MaskValues == {1, 2}

\* self.hparams restricted to the masking keys, as configured
MaskParams == [MaskKeys -> MaskValues]

\* no wav2vec2mask layer (none in aux_layers, none created yet)
NoMaskLayer == [source |-> "none", mask_width |-> 0, mask_prob |-> 0,
                num_negatives |-> 0]

\* the wav2vec2mask layers a loaded model may carry in aux_layers
LoadedMaskLayers ==
    {[source |-> "loaded", mask_width |-> w, mask_prob |-> q, num_negatives |-> n] :
       w \in MaskValues, q \in MaskValues, n \in MaskValues}

\* line 470: self.model and 'wav2vec2mask' in self.nn.aux_layers
ReuseMask(model, aux) == model /\ aux.source # "none"

(***************************************************************************)
(* Lines 477-479: the attribute assignments on self.hparams; assigning to  *)
(* a key the hyperparameters do not hold adds it.                          *)
(***************************************************************************)
OverrideFromLayer(hp, layer) ==
    [k \in DOMAIN hp \cup {"mask_width", "mask_mask_prob", "num_negatives"} |->
        IF k = "mask_width" THEN layer.mask_width
        ELSE IF k = "mask_mask_prob" THEN layer.mask_prob
        ELSE IF k = "num_negatives" THEN layer.num_negatives
        ELSE hp[k]]

\* lines 485-489: Wav2Vec2Mask(..., mask_width, mask_prob, num_negatives)
NewMaskLayer(hp) ==
    [source |-> "new", mask_width |-> hp["mask_width"],
     mask_prob |-> hp["mask_prob"], num_negatives |-> hp["num_negatives"]]

(***************************************************************************)
(* RecognitionPretrainModel.__init__: hyperparameter dictionaries, as      *)
(* functions from a set of keys to values.                                 *)
(***************************************************************************)
HyperKeys == {"lrate", "warmup"}

\* the values a loaded model or the caller may give a hyperparameter
HyperValues == {1, 2}

\* default_specs.RECOGNITION_PRETRAIN_HYPER_PARAMS as the library defines it
DefaultHyperParams == [k \in HyperKeys |-> 0]

\* the dictionaries over the keys; the empty one also stands for None
HyperDicts == UNION {[K -> HyperValues] : K \in SUBSET HyperKeys}

EmptyDict == [k \in {} |-> 0]

\* self.nn.model_type of a loaded model
ModelTypes == {"None", "recognition", "segmentation"}

\* d.update(u)
DictUpdate(d, u) ==
    [k \in DOMAIN d \cup DOMAIN u |-> IF k \in DOMAIN u THEN u[k] ELSE d[k]]

(***************************************************************************)
(* Lines 286-310: the outcome of one construction on the library's         *)
(* dictionary shared: what is raised, the hyperparameters saved and the    *)
(* library's dictionary afterwards.  Line 287 binds hyper_params_ to the   *)
(* library's dictionary itself, so the updates of lines 305 and 309 are    *)
(* updates of that dictionary.                                             *)
(***************************************************************************)
InitHyperParams(shared, hyper_params, model, model_type, load_hyper_parameters, loaded, spec_ok) ==
    IF model /\ model_type \notin {"None", "recognition"}
    THEN [raised |-> "ValueError", hparams |-> EmptyDict, shared |-> shared]
    ELSE LET hp == IF model /\ load_hyper_parameters THEN loaded ELSE EmptyDict
             after_hp == IF model THEN DictUpdate(shared, hp) ELSE shared
             hyper_params_ == IF hyper_params # EmptyDict
                              THEN DictUpdate(after_hp, hyper_params)
                              ELSE after_hp
         IN  [raised |-> IF spec_ok THEN "none" ELSE "ValueError",
              hparams |-> hyper_params_,
              shared |-> hyper_params_]

\* no construction yet
NoInstance ==
    [hyper_params |-> EmptyDict, model |-> FALSE, model_type |-> "None",
     load_hyper_parameters |-> FALSE, loaded |-> EmptyDict, spec_ok |-> TRUE,
     raised |-> "none", hparams |-> EmptyDict]

(***************************************************************************)
(* State.                                                                  *)
(***************************************************************************)
VARIABLES
    \* the random fractional split on its own
    split_n,          \* len(train_set) handed to the split
    split_partition,  \* partition, in hundredths
    split_lens,       \* [train_len, val_len], once split
    split_done,       \* whether the split was made
    \* PretrainDataModule
    dm_state,         \* "new", "constructed", or "raised" (__init__ raised)
    dm_raised,        \* the exception __init__ raised, "none" otherwise
    format_type,      \* the constructor's arguments
    training_data,
    evaluation_data,
    partition,
    first_type,
    binary_dataset_split_arg,
    binary_dataset_split,  \* the local after the format branch
    strategy,         \* the branch of lines 185-203 taken, "none" before it
    builds,           \* the _build_dataset calls made, with their results
    train_set,        \* self.train_set
    val_set,          \* self.val_set
    \* RecognitionPretrainModel: validation bookkeeping
    best_epoch,       \* self.best_epoch
    best_metric,      \* self.best_metric
    val_ce,           \* self.val_ce
    current_epoch,    \* self.current_epoch (the trainer's)
    sanity_checking,  \* self.trainer.sanity_checking
    driver_at,        \* "loop": running batches; "boundary": validation ended
    run_raised,       \* the exception that reached the driver, "none" otherwise
    last_call,        \* the last hook called, its batch and what its _step did
    history,          \* the average of each validation epoch that was not a
                      \* sanity check, with its epoch
    since_boundary,   \* the losses of the validation steps since the last
                      \* on_validation_epoch_end
    \* RecognitionPretrainModel: optimizer and scheduler hooks
    warmup,           \* self.hparams.warmup
    lrate,            \* self.hparams.lrate
    scheduler_kind,   \* the class of the scheduler
    global_step,      \* self.trainer.global_step
    is_last_batch,    \* self.trainer.is_last_batch
    opt_turn,         \* what the trainer does next in the batch
    opt_hook,         \* the last call made
    pg_lr,            \* pg["lr"] of each of optimizer.param_groups
    step_lr,          \* the rates the last optimizer.step() ran with
    sched_metric,     \* the metric given to the last lr_scheduler_step
    sched_call,       \* the call the last lr_scheduler_step made
    scheduler_steps,  \* how often the scheduler was stepped
    \* RecognitionPretrainModel.setup
    setup_state,      \* "new", "done", "skipped" (other stage), "raised"
    stage,            \* the stage setup was called with
    has_codec,        \* whether self.nn.codec was set before setup
    nn_layers,        \* the children of self.nn.nn
    net,              \* the children of self.net
    idx,              \* idx of setup (0-based)
    features,         \* the children of self.features
    encoder,          \* the children of self.encoder
    model_given,      \* whether self.model is set
    hparams,          \* self.hparams, the masking keys (and any key added)
    aux_mask,         \* self.nn.aux_layers['wav2vec2mask'] as loaded
    wav2vec2mask,     \* self.wav2vec2mask
    nn_hyper_params,  \* self.nn.hyper_params
    \* RecognitionPretrainModel.__init__
    defaults,         \* default_specs.RECOGNITION_PRETRAIN_HYPER_PARAMS
    constructions,    \* how many constructions were made
    instance          \* the last construction: its arguments, what it raised
                      \* and the hyperparameters it saved

splitVars == <<split_n, split_partition, split_lens, split_done>>

dmVars == <<dm_state, dm_raised, format_type, training_data, evaluation_data,
            partition, first_type, binary_dataset_split_arg,
            binary_dataset_split, strategy, builds, train_set, val_set>>

runVars == <<best_epoch, best_metric, val_ce, current_epoch, sanity_checking,
             driver_at, run_raised, last_call, history, since_boundary>>

optVars == <<warmup, lrate, scheduler_kind, global_step, is_last_batch, opt_turn,
             opt_hook, pg_lr, step_lr, sched_metric, sched_call, scheduler_steps>>

setupVars == <<setup_state, stage, has_codec, nn_layers, net, idx, features,
               encoder, model_given, hparams, aux_mask, wav2vec2mask,
               nn_hyper_params>>

hpVars == <<defaults, constructions, instance>>

vars == <<splitVars, dmVars, runVars, optVars, setupVars, hpVars>>

(***************************************************************************)
(* Each component's state before it is used.                               *)
(***************************************************************************)
\* the library as imported, no model constructed
HpIdle ==
    /\ defaults = DefaultHyperParams
    /\ constructions = 0
    /\ instance = NoInstance

SplitIdle ==
    /\ split_n = 0
    /\ split_partition = 0
    /\ split_lens = [train_len |-> 0, val_len |-> 0]
    /\ split_done = FALSE

DataIdle ==
    /\ dm_state = "new"
    /\ dm_raised = "none"
    /\ format_type = "path"
    /\ training_data = <<>>
    /\ evaluation_data = <<>>
    /\ partition = 90
    /\ first_type = "n/a"
    /\ binary_dataset_split_arg = FALSE
    /\ binary_dataset_split = FALSE
    /\ strategy = "none"
    /\ builds = <<>>
    /\ train_set = NoSubset
    /\ val_set = NoSubset

NoCall == [hook |-> "none", fault |-> "none", returned |-> 0, raised |-> "none",
           freed |-> FALSE]

\* lines 316-320, and the trainer about to start its sanity check
RunIdle ==
    /\ best_epoch = 0
    /\ best_metric = Inf
    /\ val_ce = <<>>
    /\ current_epoch = 0
    /\ sanity_checking = TRUE
    /\ driver_at = "loop"
    /\ run_raised = "none"
    /\ last_call = NoCall
    /\ history = <<>>
    /\ since_boundary = <<>>

\* the trainer before the first batch: the optimizer holds lrate
OptStart ==
    /\ global_step = 0
    /\ is_last_batch = FALSE
    /\ opt_turn = "optimizer"
    /\ opt_hook = "none"
    /\ pg_lr = [g \in ParamGroups |-> Rat(lrate, 1)]
    /\ step_lr = [g \in ParamGroups |-> Rat(lrate, 1)]
    /\ sched_metric = "None"
    /\ sched_call = "none"
    /\ scheduler_steps = 0

OptIdle ==
    /\ warmup = 0
    /\ lrate = 1000
    /\ scheduler_kind = "other"
    /\ OptStart

\* a model before setup: nothing split, no masking layer in use
SetupStart ==
    /\ setup_state = "new"
    /\ stage = "None"
    /\ has_codec = FALSE
    /\ nn_layers = <<>>
    /\ net = <<>>
    /\ idx = 0
    /\ features = <<>>
    /\ encoder = <<>>
    /\ aux_mask = NoMaskLayer
    /\ wav2vec2mask = NoMaskLayer
    /\ nn_hyper_params = [k \in {} |-> 0]

SetupIdle ==
    /\ SetupStart
    /\ model_given = FALSE
    /\ hparams = [k \in MaskKeys |-> 1]

(***************************************************************************)
(* The random fractional split as a function of (dataset size, partition). *)
(***************************************************************************)
SplitInit ==
    /\ split_n \in 0..MaxDatasetLen
    /\ split_partition \in 0..PartitionDen
    /\ split_lens = [train_len |-> 0, val_len |-> 0]
    /\ split_done = FALSE
    /\ DataIdle
    /\ RunIdle
    /\ OptIdle
    /\ SetupIdle
    /\ HpIdle

RandomSplit ==
    /\ ~split_done
    /\ split_lens' = SplitLens(split_n, split_partition)
    /\ split_done' = TRUE
    /\ UNCHANGED <<hpVars, split_n, split_partition, dmVars, runVars, optVars, setupVars>>

SplitNext == RandomSplit

SplitSpec == SplitInit /\ [][SplitNext]_vars

(***************************************************************************)
(* PretrainDataModule.__init__, lines 77-224, as one step.                 *)
(***************************************************************************)
DataInit == DataIdle /\ SplitIdle /\ RunIdle /\ OptIdle /\ SetupIdle /\ HpIdle

Construct ==
    /\ dm_state = "new"
    /\ \E ft \in FormatTypes, td \in SeqsUpTo(SampleKinds, MaxTrainSamples),
          ed \in SeqsUpTo(SampleKinds, MaxEvalSamples), p \in Partitions,
          bds \in BOOLEAN :
        \E first \in ItemTypes(ft, td) :
          LET norm == NormalizeFormat(ft, td, first, bds)
              strat == SelectStrategy(ed, norm.binary_dataset_split)
          IN  /\ format_type' = ft
              /\ training_data' = td
              /\ evaluation_data' = ed
              /\ partition' = p
              /\ first_type' = first
              /\ binary_dataset_split_arg' = bds
              /\ binary_dataset_split' = norm.binary_dataset_split
              /\ IF norm.raised # "none"
                 THEN /\ dm_state' = "raised"
                      /\ dm_raised' = norm.raised
                      /\ UNCHANGED <<strategy, builds, train_set, val_set>>
                 ELSE \E o \in BuildSplits(strat, td, ed, p) :
                        /\ strategy' = strat
                        /\ builds' = o.builds
                        /\ train_set' = o.train_set
                        /\ val_set' = o.val_set
                        /\ dm_raised' =
                             IF o.raised # "none" THEN o.raised
                             ELSE IF SplitsEmpty(o.train_set, o.val_set)
                             THEN "ValueError"
                             ELSE "none"
                        /\ dm_state' = IF dm_raised' = "none" THEN "constructed"
                                       ELSE "raised"
    /\ UNCHANGED <<hpVars, splitVars, runVars, optVars, setupVars>>

DataNext == Construct

DataSpec == DataInit /\ [][DataNext]_vars

(***************************************************************************)
(* RecognitionPretrainModel under the trainer: a sanity check (validation  *)
(* batches with sanity_checking set), then epochs of training batches and  *)
(* validation batches, each closed by on_validation_epoch_end.             *)
(***************************************************************************)
Init == RunIdle /\ DataIdle /\ SplitIdle /\ OptIdle /\ SetupIdle /\ HpIdle

Running == run_raised = "none" /\ driver_at = "loop"

\* lines 408-418
TrainingStep ==
    /\ Running /\ ~sanity_checking
    /\ \E batch \in Batches :
         LET o == Step(batch)
         IN  /\ last_call' = [hook |-> "training_step", fault |-> batch.fault] @@ o
             /\ run_raised' = o.raised
    /\ UNCHANGED <<hpVars, splitVars, dmVars, optVars, setupVars, best_epoch, best_metric, val_ce, current_epoch,
                   sanity_checking, driver_at, history, since_boundary>>

\* lines 389-394
ValidationStep ==
    /\ Running
    /\ Len(since_boundary) < MaxValBatches
    /\ \E batch \in Batches :
         LET o == Step(batch)
         IN  /\ last_call' = [hook |-> "validation_step", fault |-> batch.fault] @@ o
             /\ run_raised' = o.raised
             /\ val_ce' = IF o.raised = "none" /\ o.returned # 0
                          THEN Append(val_ce, o.returned) ELSE val_ce
             /\ since_boundary' = IF batch.fault = "none"
                                  THEN Append(since_boundary, batch.loss)
                                  ELSE since_boundary
    /\ UNCHANGED <<hpVars, splitVars, dmVars, optVars, setupVars, best_epoch, best_metric, current_epoch, sanity_checking,
                   driver_at, history>>

\* lines 396-406
OnValidationEpochEnd ==
    /\ Running
    /\ sanity_checking \/ Len(history) < MaxValEpochs
    /\ LET ce == Mean(val_ce)
       IN  IF ~sanity_checking
           THEN /\ IF Improves(ce, best_metric)
                   THEN best_epoch' = current_epoch /\ best_metric' = ce
                   ELSE UNCHANGED <<best_epoch, best_metric>>
                /\ history' = Append(history, [epoch |-> current_epoch, ce |-> ce])
           ELSE UNCHANGED <<best_epoch, best_metric, history>>
    /\ val_ce' = Cleared(val_ce, sanity_checking)
    /\ since_boundary' = <<>>
    /\ last_call' = [NoCall EXCEPT !.hook = "on_validation_epoch_end"]
    /\ driver_at' = "boundary"
    /\ UNCHANGED <<hpVars, splitVars, dmVars, optVars, setupVars, current_epoch, sanity_checking, run_raised>>

\* the trainer ends its sanity check, with or without having validated
EndSanityCheck ==
    /\ run_raised = "none" /\ sanity_checking
    /\ sanity_checking' = FALSE
    /\ driver_at' = "loop"
    /\ last_call' = [NoCall EXCEPT !.hook = "trainer"]
    /\ UNCHANGED <<hpVars, splitVars, dmVars, optVars, setupVars, best_epoch, best_metric, val_ce, current_epoch, run_raised,
                   history, since_boundary>>

\* the trainer goes on to the next epoch
NextEpoch ==
    /\ run_raised = "none" /\ ~sanity_checking /\ driver_at = "boundary"
    /\ current_epoch' = current_epoch + 1
    /\ driver_at' = "loop"
    /\ last_call' = [NoCall EXCEPT !.hook = "trainer"]
    /\ UNCHANGED <<hpVars, splitVars, dmVars, optVars, setupVars, best_epoch, best_metric, val_ce, sanity_checking, run_raised,
                   history, since_boundary>>

Next ==
    \/ TrainingStep
    \/ ValidationStep
    \/ OnValidationEpochEnd
    \/ EndSanityCheck
    \/ NextEpoch

Spec == Init /\ [][Next]_vars

(***************************************************************************)
(* The optimizer and scheduler hooks under the trainer: per batch,         *)
(* optimizer_step, then the trainer counts the step, then                  *)
(* lr_scheduler_step.                                                      *)
(***************************************************************************)
OptInit ==
    /\ warmup \in Warmups
    /\ lrate \in LRates
    /\ scheduler_kind \in SchedulerKinds
    /\ OptStart
    /\ RunIdle /\ DataIdle /\ SplitIdle /\ SetupIdle /\ HpIdle

\* lines 428-437
OptimizerStep ==
    /\ opt_turn = "optimizer"
    /\ global_step < MaxGlobalStep
    /\ step_lr' = pg_lr
    /\ pg_lr' = IF InWarmup(warmup, global_step)
                THEN [g \in ParamGroups |-> WarmupRate(warmup, global_step, lrate)]
                ELSE pg_lr
    /\ opt_hook' = "optimizer_step"
    /\ opt_turn' = "trainer"
    /\ UNCHANGED <<warmup, lrate, scheduler_kind, global_step, is_last_batch,
                   sched_metric, sched_call, scheduler_steps>>
    /\ UNCHANGED <<hpVars, splitVars, dmVars, runVars, setupVars>>

\* the trainer counts the optimizer step done and knows whether the batch
\* is the last of its epoch
CountStep ==
    /\ opt_turn = "trainer"
    /\ global_step' = global_step + 1
    /\ is_last_batch' \in BOOLEAN
    /\ opt_hook' = "trainer"
    /\ opt_turn' = "scheduler"
    /\ UNCHANGED <<warmup, lrate, scheduler_kind, pg_lr, step_lr, sched_metric,
                   sched_call, scheduler_steps>>
    /\ UNCHANGED <<hpVars, splitVars, dmVars, runVars, setupVars>>

\* lines 439-449; a stepped scheduler sets the rate of every group
LrSchedulerStep ==
    /\ opt_turn = "scheduler"
    /\ \E metric \in Metrics :
         LET call == SchedulerCall(warmup, global_step, scheduler_kind,
                                   is_last_batch, metric)
         IN  /\ sched_metric' = metric
             /\ sched_call' = call
             /\ IF call = "none"
                THEN UNCHANGED <<pg_lr, scheduler_steps>>
                ELSE /\ scheduler_steps' = scheduler_steps + 1
                     /\ \E r \in ScheduledRates(lrate) :
                           pg_lr' = [g \in ParamGroups |-> r]
    /\ opt_hook' = "lr_scheduler_step"
    /\ opt_turn' = "optimizer"
    /\ UNCHANGED <<warmup, lrate, scheduler_kind, global_step, is_last_batch,
                   step_lr>>
    /\ UNCHANGED <<hpVars, splitVars, dmVars, runVars, setupVars>>

OptNext ==
    \/ OptimizerStep
    \/ CountStep
    \/ LrSchedulerStep

OptSpec == OptInit /\ [][OptNext]_vars

(***************************************************************************)
(* RecognitionPretrainModel.setup, lines 451-499, as one step, on the      *)
(* network loaded or created.                                              *)
(***************************************************************************)
SetupInit ==
    /\ SetupStart
    /\ model_given \in BOOLEAN
    /\ hparams \in MaskParams
    /\ RunIdle /\ DataIdle /\ SplitIdle /\ OptIdle /\ HpIdle

Setup ==
    /\ setup_state = "new"
    /\ \E st \in Stages, layers \in SeqsUpTo(LayerKinds, MaxLayers),
          codec \in (IF model_given THEN BOOLEAN ELSE {FALSE}),
          aux \in (IF model_given THEN LoadedMaskLayers \cup {NoMaskLayer}
                   ELSE {NoMaskLayer}),
          shared \in BOOLEAN :
         LET i == SplitIndex(layers)
             hp == IF ReuseMask(model_given, aux)
                   THEN OverrideFromLayer(hparams, aux) ELSE hparams
             grown == IF layers # <<>> /\ NeedsOutputLayer(codec, layers)
                      THEN Append(layers, "linsoftmax") ELSE layers
             \* whether self.net still is self.nn.nn after nn.append()
             seen == IF shared THEN grown ELSE layers
         IN  /\ stage' = st
             /\ has_codec' = codec
             /\ aux_mask' = aux
             /\ UNCHANGED model_given
             /\ IF st \notin {"None", "fit"}
                THEN /\ setup_state' = "skipped"
                     /\ nn_layers' = layers
                     /\ UNCHANGED <<net, idx, features, encoder, hparams,
                                    wav2vec2mask, nn_hyper_params>>
                ELSE IF layers = <<>>
                THEN /\ setup_state' = "raised"
                     /\ nn_layers' = layers
                     /\ UNCHANGED <<net, idx, features, encoder, hparams,
                                    wav2vec2mask, nn_hyper_params>>
                ELSE /\ setup_state' = "done"
                     /\ wav2vec2mask' = IF ReuseMask(model_given, aux) THEN aux
                                        ELSE NewMaskLayer(hparams)
                     /\ hparams' = hp
                     /\ nn_hyper_params' = hp
                     /\ idx' = i
                     /\ features' = SliceBefore(layers, i)
                     /\ nn_layers' = grown
                     /\ net' = seen
                     /\ encoder' = SliceFrom(seen, i)
    /\ UNCHANGED <<hpVars, splitVars, dmVars, runVars, optVars>>

SetupNext == Setup

SetupSpec == SetupInit /\ [][SetupNext]_vars

(***************************************************************************)
(* RecognitionPretrainModel.__init__, lines 286-310 and the raise of line  *)
(* 325, one construction after another in one process.                     *)
(***************************************************************************)
HpInit == HpIdle /\ RunIdle /\ DataIdle /\ SplitIdle /\ OptIdle /\ SetupIdle

ConstructModel ==
    /\ constructions < MaxConstructions
    /\ \E hyper_params \in HyperDicts, model \in BOOLEAN, spec_ok \in BOOLEAN :
       \E model_type \in (IF model THEN ModelTypes ELSE {"None"}),
          load_hyper_parameters \in (IF model THEN BOOLEAN ELSE {FALSE}),
          loaded \in (IF model THEN HyperDicts ELSE {EmptyDict}) :
         LET o == InitHyperParams(defaults, hyper_params, model, model_type,
                                  load_hyper_parameters, loaded, spec_ok)
         IN  /\ defaults' = o.shared
             /\ instance' = [hyper_params |-> hyper_params, model |-> model,
                             model_type |-> model_type,
                             load_hyper_parameters |-> load_hyper_parameters,
                             loaded |-> loaded, spec_ok |-> spec_ok,
                             raised |-> o.raised, hparams |-> o.hparams]
    /\ constructions' = constructions + 1
    /\ UNCHANGED <<splitVars, dmVars, runVars, optVars, setupVars>>

HpNext == ConstructModel

HpSpec == HpInit /\ [][HpNext]_vars

(***************************************************************************)
(* Helpers of the properties.                                              *)
(***************************************************************************)
\* how many samples of the list are of a kind in S
Count(samples, S) == Cardinality({i \in 1..Len(samples) : samples[i] \in S})

\* the positions of the list a build with this split filter should keep, in order
RECURSIVE KeptFrom(_, _, _)
KeptFrom(samples, i, split_filter) ==
    IF i > Len(samples) THEN <<>>
    ELSE IF samples[i] \in {"train", "validation"} /\ split_filter \in {"all", samples[i]}
         THEN <<i>> \o KeptFrom(samples, i + 1, split_filter)
         ELSE KeptFrom(samples, i + 1, split_filter)

\* the constructor got past the format branch
FormatAccepted ==
    /\ dm_state # "new"
    /\ NormalizeFormat(format_type, training_data, first_type,
                       binary_dataset_split_arg).raised = "none"

\* every _build_dataset call returned, so both splits were assigned
SplitsMade ==
    /\ FormatAccepted
    /\ \A i \in 1..Len(builds) : builds[i].raised = "none"

(***************************************************************************)
(* C1.  _build_dataset skips a sample whose add() raises a missing-file    *)
(* error or a KrakenInputException and goes on with the samples after it:  *)
(* with no other error in the list the build returns and the dataset holds *)
(* exactly the samples whose add() did not raise, so its length is the     *)
(* number of descriptors minus the number that raised; any other error     *)
(* aborts the build.                                                       *)
(***************************************************************************)
C1_RecoverableSkipped ==
    \A i \in 1..Len(builds) :
        LET b == builds[i]
        IN  IF Count(b.samples, {"other"}) = 0
            THEN /\ b.raised = "none"
                 /\ b.dataset = KeptFrom(b.samples, 1, b.split_filter)
                 /\ b.split_filter = "all" =>
                       Len(b.dataset) = Len(b.samples)
                                        - Count(b.samples, {"bad", "missing"})
            ELSE b.raised = "OtherError"

(***************************************************************************)
(* C2.  Whatever the split strategy, when the train split or the           *)
(* validation split ends up empty the constructor raises ValueError, so a  *)
(* constructed data module has a non-empty train and a non-empty           *)
(* validation split.                                                       *)
(***************************************************************************)
C2_EmptySplitRaises ==
    /\ SplitsMade /\ (SubsetLen(train_set) = 0 \/ SubsetLen(val_set) = 0)
          => dm_state = "raised" /\ dm_raised = "ValueError"
    /\ dm_state = "constructed"
          => SplitsMade /\ SubsetLen(train_set) > 0 /\ SubsetLen(val_set) > 0

\* one split is empty and the other is not, and the constructor raised
C2_Witness ==
    /\ SplitsMade
    /\ strategy = "pre-encoded"
    /\ SubsetLen(train_set) > 0
    /\ SubsetLen(val_set) = 0
    /\ dm_raised = "ValueError"

(***************************************************************************)
(* C3, as stated.  The random fractional split of a dataset of size N      *)
(* with fraction f gives a train split of exactly floor(N*f) elements and  *)
(* a validation split of N - floor(N*f).                                   *)
(***************************************************************************)
FloorNf(n, k) == (n * k) \div PartitionDen

C3_ExactFloor ==
    split_done =>
        /\ split_lens.train_len = FloorNf(split_n, split_partition)
        /\ split_lens.val_len = split_n - FloorNf(split_n, split_partition)

(***************************************************************************)
(* C4.  With explicit train and eval lists the explicit-eval-set strategy  *)
(* is taken whatever the pre-encoded-split flag and the partition: each    *)
(* dataset is built from its own list without a split filter, each split   *)
(* is the full index range of its dataset, and its size is the size of its *)
(* list minus the samples the build skipped.                               *)
(***************************************************************************)
C4_ExplicitEvalSet ==
    FormatAccepted /\ evaluation_data # <<>> =>
        /\ strategy = "explicit"
        /\ Len(builds) >= 1
        /\ builds[1].samples = training_data /\ builds[1].split_filter = "all"
        /\ Len(builds) = 2 =>
              builds[2].samples = evaluation_data /\ builds[2].split_filter = "all"
        /\ SplitsMade =>
              /\ Len(builds) = 2
              /\ train_set = FullRange(builds[1].dataset)
              /\ val_set = FullRange(builds[2].dataset)
              /\ SubsetLen(train_set)
                    = Len(training_data) - Count(training_data, {"bad"})
              /\ SubsetLen(val_set)
                    = Len(evaluation_data) - Count(evaluation_data, {"bad"})

\* the flag is set and stays set (binary format), eval data is given, samples
\* are skipped in both lists, and the module is constructed from explicit lists
C4_Witness ==
    /\ dm_state = "constructed"
    /\ evaluation_data # <<>>
    /\ binary_dataset_split
    /\ strategy = "explicit"
    /\ Count(training_data, {"bad"}) > 0
    /\ Count(evaluation_data, {"bad"}) > 0
    /\ SubsetLen(val_set) = 1

(***************************************************************************)
(* C5.  From best_epoch = 0 and best_metric = +infinity, after any         *)
(* sequence of on_validation_epoch_end calls outside the sanity check,     *)
(* best_metric is the least of the epochs' average validation losses so    *)
(* far and best_epoch the epoch of the earliest average that reached it    *)
(* (a tie leaves the pair as it is).  An epoch without a loss has no       *)
(* average (np.mean gives nan) and counts for nothing.                     *)
(***************************************************************************)
C5_BestIsEarliestMinimum ==
    LET averaged == {i \in 1..Len(history) : ~IsNaN(history[i].ce)}
    IN  IF averaged = {}
        THEN best_metric = Inf /\ best_epoch = 0
        ELSE \E m \in averaged :
                /\ \A j \in averaged : ~Less(history[j].ce, history[m].ce)
                /\ \A j \in averaged : j < m => Less(history[m].ce, history[j].ce)
                /\ best_metric = history[m].ce
                /\ best_epoch = history[m].epoch

\* averages high, low, middle over epochs 0, 1, 2: the best is epoch 1's
C5_Witness ==
    /\ Len(history) = 3
    /\ history[1] = [epoch |-> 0, ce |-> Rat(2, 1)]
    /\ history[2] = [epoch |-> 1, ce |-> Rat(1, 1)]
    /\ history[3] = [epoch |-> 2, ce |-> Rat(3, 2)]
    /\ best_metric = Rat(1, 1)
    /\ best_epoch = 1

(***************************************************************************)
(* C7.  An out-of-memory failure in a training or validation step is a     *)
(* soft failure: the step returns nothing, the cached device memory is     *)
(* released, nothing reaches the driver, val_ce and best_epoch/best_metric *)
(* stay as they were, and a validation step after it appends its loss as   *)
(* usual; a RuntimeError that is not out-of-memory reaches the driver.     *)
(***************************************************************************)
C7_OomIsSoftFailure ==
    [][/\ last_call'.hook \in {"training_step", "validation_step"}
          /\ last_call'.fault = "oom"
          => /\ last_call'.returned = 0
             /\ last_call'.freed
             /\ last_call'.raised = "none"
             /\ run_raised' = "none"
             /\ val_ce' = val_ce
             /\ best_epoch' = best_epoch
             /\ best_metric' = best_metric
       /\ last_call.fault = "oom"
          /\ last_call'.hook = "validation_step"
          /\ last_call'.fault = "none"
          => /\ last_call'.returned \in Losses
             /\ val_ce' = Append(val_ce, last_call'.returned)
             /\ run_raised' = "none"
       /\ last_call'.hook \in {"training_step", "validation_step"}
          /\ last_call'.fault = "runtime_error"
          => /\ run_raised' = "RuntimeError"
             /\ ~last_call'.freed
             /\ val_ce' = val_ce
      ]_vars

\* a validation step ran out of memory with losses accumulated and a best
\* metric recorded, and the run goes on
C7_Witness ==
    /\ last_call.hook = "validation_step"
    /\ last_call.fault = "oom"
    /\ val_ce # <<>>
    /\ best_metric # Inf
    /\ run_raised = "none"
    /\ ENABLED ValidationStep

(***************************************************************************)
(* C9.  Every on_validation_epoch_end leaves val_ce empty, in a sanity     *)
(* check or not, so the average of an epoch is that of the losses its own  *)
(* validation steps appended since the previous call; in a sanity check    *)
(* nothing else changes (best_epoch and best_metric stay).                 *)
(***************************************************************************)
C9_AccumulatorCleared ==
    [][last_call'.hook = "on_validation_epoch_end"
          => /\ val_ce' = <<>>
             /\ IF sanity_checking
                THEN /\ best_epoch' = best_epoch
                     /\ best_metric' = best_metric
                     /\ history' = history
                ELSE /\ Len(history') = Len(history) + 1
                     /\ history'[Len(history')].ce = Mean(since_boundary)
      ]_vars

\* two epochs whose averages are those of their own losses: the second would
\* be 3/2 had the first epoch's loss stayed in the accumulator
C9_Witness ==
    /\ last_call.hook = "on_validation_epoch_end"
    /\ Len(history) = 2
    /\ history[1].ce = Rat(2, 1)
    /\ history[2].ce = Rat(1, 1)
    /\ val_ce = <<>>


(***************************************************************************)
(* C6: optimizer_step runs the base optimizer step with the rates the      *)
(* groups hold, and then, when a warmup W is configured and the global     *)
(* step g is below it, sets the rate of every parameter group to the       *)
(* configured rate scaled by (g + 1) / W, capped at 1: lr * W =            *)
(* lrate * (g + 1).  With W = 100 and g = 49 every group holds half the    *)
(* configured rate.  Without a warmup, or from step W on, it leaves the    *)
(* rates alone.                                                            *)
(***************************************************************************)
C6_WarmupScalesEveryGroup ==
    [][opt_hook' = "optimizer_step" =>
        /\ step_lr' = pg_lr
        /\ IF warmup > 0 /\ global_step < warmup
           THEN \A g \in ParamGroups :
                  /\ pg_lr'[g].den > 0
                  /\ pg_lr'[g].num * warmup
                       = lrate * (global_step + 1) * pg_lr'[g].den
                  /\ pg_lr'[g].num <= lrate * pg_lr'[g].den
                  /\ (warmup = 100 /\ global_step = 49)
                       => 2 * pg_lr'[g].num = lrate * pg_lr'[g].den
           ELSE pg_lr' = pg_lr]_vars

C6_Witness ==
    /\ opt_hook = "optimizer_step"
    /\ warmup = 100
    /\ global_step = 49
    /\ \A g \in ParamGroups : pg_lr[g] = Rat(lrate, 2)

(***************************************************************************)
(* C8: lr_scheduler_step steps the scheduler only when no warmup is        *)
(* configured or the global step has reached the warmup count; then a      *)
(* OneCycleLR scheduler is stepped on every call, and any other scheduler  *)
(* only on the last batch of an epoch, with the metric when one is given   *)
(* and without it otherwise.  While the global step is below the warmup    *)
(* count the scheduler has never been stepped.                             *)
(***************************************************************************)
C8_SchedulerStepping ==
    [][opt_hook' = "lr_scheduler_step" =>
        /\ (warmup > 0 /\ global_step < warmup) => sched_call' = "none"
        /\ (warmup = 0 \/ global_step >= warmup) =>
             /\ scheduler_kind = "OneCycleLR" => sched_call' = "step()"
             /\ (scheduler_kind # "OneCycleLR" /\ ~is_last_batch)
                  => sched_call' = "none"
             /\ (scheduler_kind # "OneCycleLR" /\ is_last_batch)
                  => sched_call' = IF sched_metric' = "None" THEN "step()"
                                   ELSE "step(metric)"
        /\ scheduler_steps' = scheduler_steps
                                + (IF sched_call' = "none" THEN 0 ELSE 1)
        /\ (warmup > 0 /\ global_step < warmup) => scheduler_steps' = 0]_vars

C8_Witness ==
    /\ opt_hook = "lr_scheduler_step"
    /\ warmup = 2
    /\ global_step = warmup
    /\ scheduler_kind = "other"
    /\ is_last_batch
    /\ sched_call = "step(metric)"
    /\ scheduler_steps = 1

(***************************************************************************)
(* C10: after setup, idx is the position of the first recurrent layer of   *)
(* the layer sequence, features holds the layers before it and encoder     *)
(* the layers from it on; the two are contiguous, disjoint and cover the   *)
(* sequence.                                                               *)
(***************************************************************************)
C10_SplitAtFirstRecurrent ==
    setup_state = "done" =>
        /\ idx + 1 \in 1..Len(net)
        /\ net[idx + 1] = "rnn"
        /\ \A j \in 1..idx : net[j] # "rnn"
        /\ features = SubSeq(net, 1, idx)
        /\ encoder = SubSeq(net, idx + 1, Len(net))
        /\ features \o encoder = net


(***************************************************************************)
(* C11: the pre-encoded split strategy is selected only for the binary     *)
(* format.  For every other accepted format (path, xml, page, alto, and    *)
(* unset, whatever the type of the first training item) the                *)
(* pre-encoded-split flag is off when the strategy is chosen, and no       *)
(* dataset is built with a "train" or "validation" split filter.           *)
(***************************************************************************)
C11_PreEncodedOnlyBinary ==
    (FormatAccepted /\ format_type # "binary") =>
        /\ binary_dataset_split = FALSE
        /\ strategy # "pre-encoded"
        /\ \A i \in 1..Len(builds) : builds[i].split_filter = "all"


(***************************************************************************)
(* C12: after setup, the persisted hyperparameters mask_width, mask_prob   *)
(* and num_negatives equal the parameters of the masking layer in use,     *)
(* whether the layer was reused from the loaded model or created from the  *)
(* configured values.                                                      *)
(***************************************************************************)
C12_PersistedMaskParams ==
    setup_state = "done" =>
        /\ wav2vec2mask.source \in {"loaded", "new"}
        /\ MaskKeys \subseteq DOMAIN nn_hyper_params
        /\ nn_hyper_params["mask_width"] = wav2vec2mask.mask_width
        /\ nn_hyper_params["mask_prob"] = wav2vec2mask.mask_prob
        /\ nn_hyper_params["num_negatives"] = wav2vec2mask.num_negatives


(***************************************************************************)
(* C13: constructing a RecognitionPretrainModel leaves the library's       *)
(* default hyperparameters unchanged, and the hyperparameters every        *)
(* construction saves are the library's defaults overlaid by the loaded    *)
(* model's hyperparameters (when a model is given and loading them is      *)
(* requested) and then by the construction's own hyper_params, whatever    *)
(* was constructed before.                                                 *)
(***************************************************************************)
C13_DefaultsUnchanged ==
    /\ defaults = DefaultHyperParams
    /\ (constructions > 0
          /\ ~(instance.model /\ instance.model_type = "segmentation")) =>
         instance.hparams =
            DictUpdate(DictUpdate(DefaultHyperParams,
                                  IF instance.model /\ instance.load_hyper_parameters
                                  THEN instance.loaded ELSE EmptyDict),
                       instance.hyper_params)

====
